---- MODULE Spec2Model ----
(***************************************************************************)
(* Model of the forum frontend's two stateful components:                  *)
(*   - Navbar (src/src/components/layout/navbar.tsx, second revision,      *)
(*     lines 108-277): the unread-notification counter, seeded by          *)
(*     GET /api/notifications?unreadOnly=true and incremented by the       *)
(*     socket event notification:new;                                      *)
(*   - ProfilePage (src/src/app/profile/page.tsx): the profile form and    *)
(*     its PATCH /api/me submission.                                       *)
(* React effects are modelled as running atomically with the change of     *)
(* the dependency that triggers them; every awaited network round trip is  *)
(* a separate step, so that resolutions interleave freely.                 *)
(***************************************************************************)
EXTENDS Integers, FiniteSets, Sequences, Bags, TLC

\* ---------------------------------------------------------------- bounds
MaxInFlight == 2   \* seed fetches pending at once
MaxNotifs == 2     \* notifications the server creates in one behaviour
MaxSubmits == 2    \* profile submissions in one behaviour

Users == {"u1", "u2"}
NoUser == "none"
NoSocket == "null"
Sockets == <<"s1", "s2">>
InitUnread == [u \in Users |-> IF u = "u1" THEN 1 ELSE 0]
Notified == {"u1"}     \* the users who are sent new notifications

VARIABLES
    userId,        \* useAuth().userId as last rendered: a user or NoUser
    socket,        \* useSocket().socket as last rendered: a socket or NoSocket
    mounted,       \* the Navbar is mounted
    unreadCount,   \* the shared notification-count store
    fetches,       \* seed fetches awaiting resolution (one per effect run)
    listeners,     \* notification:new listeners this component has registered
    unread,        \* server side: unread notifications per user
    wire,          \* push events emitted by the server, not yet delivered
    last,          \* the last navbar handler that ran, and what it emitted
    basis,         \* last seed applied for the current session + pushes since
    form,          \* ProfilePage: react-hook-form values
    isLoading,     \* ProfilePage: isLoading state
    isSaving,      \* ProfilePage: isSaving state
    load,          \* ProfilePage: the GET /api/me request in flight
    patch,         \* ProfilePage: the PATCH /api/me request in flight
    profile,       \* server side: the stored profile record
    notices,       \* ProfilePage: toasts shown to the user
    submits        \* ProfilePage: submissions made so far

navVars == <<userId, socket, mounted, unreadCount, fetches, listeners,
             unread, wire, last, basis>>
profVars == <<form, isLoading, isSaving, load, patch, profile, notices, submits>>
vars == <<userId, socket, mounted, unreadCount, fetches, listeners,
          unread, wire, last, basis,
          form, isLoading, isSaving, load, patch, profile, notices, submits>>

\* ------------------------------------------------- notification-count store
\* useNotificationCount(): a shared counter with a setter and an incrementer.
setUnreadCount(c, v) == v

incrementUnread(c) == c + 1

\* ----------------------------------------------------------- navbar helpers
NoBasis == [valid |-> FALSE, len |-> 0, pushes |-> 0]

\* The record kept of the last handler run.  op: the handler; before:
\* unreadCount when it started (for a push: when the run of consecutive push
\* events started); val: the length a seed applied, or the number of push
\* events handled in a row; log, toast: whether it wrote to the console,
\* whether it showed a toast.
Last(op, before, val, log, toast) ==
    [op |-> op, fresh |-> FALSE, overwrote |-> FALSE, before |-> before,
     val |-> val, log |-> log, toast |-> toast]

\* The record of a seed that resolved with f's collection.  fresh: f was the
\* most recent request and for the session still current; overwrote: the
\* count it replaced was a different one.
LastSeed(f) ==
    [op |-> "seedOk", fresh |-> f.latest /\ f.user = userId,
     overwrote |-> unreadCount # f.len, before |-> 0, val |-> f.len,
     log |-> TRUE, toast |-> FALSE]

Stale(f) == [f EXCEPT !.latest = FALSE]

\* const data = await apiGet(...): a new request, in the closure of one
\* effect run (let isMounted = true; the effect returns no cleanup).
\* latest: no seed request has been issued after this one.
\* missed: the push events handled while it was pending whose notification
\* is not in the collection the server returned.
NewFetch(u) ==
    [user |-> u, state |-> "sent", len |-> 0, missed |-> 0, latest |-> TRUE,
     isMounted |-> TRUE]

\* loadUnreadNotifications() up to its first await, for the rendered userId u.
loadUnreadNotifications(u) ==
    IF u = NoUser
    THEN /\ unreadCount' = setUnreadCount(unreadCount, 0)
         /\ last' = Last("clear", 0, 0, FALSE, FALSE)
         /\ UNCHANGED fetches
    ELSE /\ BagCardinality(fetches) < MaxInFlight
         /\ fetches' = BagOfAll(Stale, fetches) (+) SetToBag({NewFetch(u)})
         /\ UNCHANGED <<unreadCount, last>>

\* A listener: the socket it is registered on; cur: it is the handler of the
\* latest run of the subscription effect; ended: the session in which it was
\* registered is over.
SessionEnded(L) == {[l EXCEPT !.ended = TRUE] : l \in L}

\* The cleanup of the subscription effect: socket.off("notification:new",
\* handleNewNotification) removes the handler the latest effect run created.
Unsubscribed == {l \in listeners : ~l.cur}

\* The subscription effect for the rendered socket s:
\* the previous run's cleanup, then socket.on unless s is null.
Subscribe(s) ==
    IF s = NoSocket
    THEN listeners' = Unsubscribed
    ELSE listeners' = Unsubscribed \cup
                        {[sock |-> s, cur |-> TRUE, ended |-> FALSE]}

\* ------------------------------------------------------------ navbar actions
\* useAuth() renders a new userId; the effect keyed on [userId] re-runs.
\* The subscription effect is keyed on [socket, incrementUnread] and does not.
SessionChange(u) ==
    /\ mounted
    /\ u # userId
    /\ userId' = u
    /\ loadUnreadNotifications(u)
    /\ listeners' = IF userId = NoUser THEN listeners
                     ELSE SessionEnded(listeners)
    /\ basis' = NoBasis
    /\ UNCHANGED <<socket, mounted, unread, wire, profVars>>

\* A socket object useSocket() may hand out next: null, or a new connection.
\* A name is free once nothing refers to it; the first free name is used.
Free(s) ==
    /\ s # socket
    /\ \A l \in listeners : l.sock # s
    /\ \A e \in wire : e.sock # s

NextSockets ==
    {NoSocket} \cup
    {Sockets[i] : i \in {j \in 1..Len(Sockets) :
                           /\ Free(Sockets[j])
                           /\ \A k \in 1..(j - 1) : ~Free(Sockets[k])}}

\* useSocket() renders a new socket (or null); the effect keyed on
\* [socket, incrementUnread] cleans up and re-runs.
SocketChange(s) ==
    /\ mounted
    /\ s # socket
    /\ socket' = s
    /\ Subscribe(s)
    /\ UNCHANGED <<userId, mounted, unreadCount, fetches, unread, wire, last,
                   basis, profVars>>

\* The Navbar mounts with the session u and the socket s its hooks return:
\* both effects run for the first time.
Mount(u, s) ==
    /\ ~mounted
    /\ mounted' = TRUE
    /\ userId' = u
    /\ socket' = s
    /\ loadUnreadNotifications(u)
    /\ Subscribe(s)
    /\ basis' = IF u = userId THEN basis ELSE NoBasis
    /\ UNCHANGED <<unread, wire, profVars>>

\* The Navbar unmounts: the subscription effect's cleanup runs; the seed
\* effect has no cleanup, so the isMounted flags of its runs stay true.
Unmount ==
    /\ mounted
    /\ mounted' = FALSE
    /\ listeners' = Unsubscribed
    /\ UNCHANGED <<userId, socket, unreadCount, fetches, unread, wire, last,
                   basis, profVars>>

\* SeedResolve with the length added to the count instead of replacing it.
SeedResolve_accumulate(f) ==
        /\ BagIn(f, fetches)
        /\ f.state = "ok"
        /\ fetches' = fetches (-) SetToBag({f})
        /\ unreadCount' = setUnreadCount(unreadCount, unreadCount + f.len)
        /\ last' = LastSeed(f)
        /\ basis' = IF f.user = userId
                    THEN [valid |-> TRUE, len |-> f.len, pushes |-> 0]
                    ELSE basis
        /\ UNCHANGED <<userId, socket, mounted, listeners, unread, wire,
                       profVars>>

\* The awaited apiGet resolves with the collection the server returned:
\* if (!isMounted) return; console.log(data); setUnreadCount(data.length).
SeedResolve(f) ==
        /\ BagIn(f, fetches)
        /\ f.state = "ok"
        /\ fetches' = fetches (-) SetToBag({f})
        /\ IF ~f.isMounted
           THEN UNCHANGED <<unreadCount, last, basis>>
           ELSE /\ unreadCount' = setUnreadCount(unreadCount, f.len)
                /\ last' = LastSeed(f)
                /\ basis' = IF f.user = userId
                            THEN [valid |-> TRUE, len |-> f.len, pushes |-> 0]
                            ELSE basis
        /\ UNCHANGED <<userId, socket, mounted, listeners, unread, wire,
                       profVars>>

\* SeedFail with the count reset in the catch block.
SeedFail_reset(f) ==
        /\ BagIn(f, fetches)
        /\ fetches' = fetches (-) SetToBag({f})
        /\ unreadCount' = setUnreadCount(unreadCount, 0)
        /\ last' = Last("seedFail", unreadCount, 0, TRUE, FALSE)
        /\ UNCHANGED <<userId, socket, mounted, listeners, unread, wire, basis,
                       profVars>>

\* The awaited apiGet rejects (network error or non-2xx status):
\* if (!isMounted) return; console.log("Error ocuured").
SeedFail(f) ==
        /\ BagIn(f, fetches)
        /\ fetches' = fetches (-) SetToBag({f})
        /\ IF ~f.isMounted
           THEN UNCHANGED last
           ELSE last' = Last("seedFail", unreadCount, 0, TRUE, FALSE)
        /\ UNCHANGED <<userId, socket, mounted, unreadCount, listeners, unread,
                       wire, basis, profVars>>

\* socket.emit: every listener registered on the socket runs once.
RECURSIVE Emit(_, _)
Emit(c, k) == IF k = 0 THEN c ELSE Emit(incrementUnread(c), k - 1)

\* handleNewNotification showing the toast without incrementUnread().
handleNewNotification_toastOnly(e) ==
    LET k == Cardinality({l \in listeners : l.sock = e.sock})
    IN  /\ e \in wire
        /\ k > 0
        /\ wire' = wire \ {e}
        /\ last' = IF last.op = "push"
                   THEN [last EXCEPT !.val = @ + 1]
                   ELSE Last("push", unreadCount, 1, FALSE, TRUE)
        /\ basis' = IF basis.valid
                    THEN [basis EXCEPT !.pushes = @ + 1] ELSE basis
        /\ UNCHANGED <<userId, socket, mounted, unreadCount, fetches, listeners,
                       unread, profVars>>

\* handleNewNotification(payload), for a push event that arrives on a socket
\* this component listens on: incrementUnread(); toast(...).
handleNewNotification(e) ==
    LET k == Cardinality({l \in listeners : l.sock = e.sock})
    IN  /\ e \in wire
        /\ k > 0
        /\ wire' = wire \ {e}
        /\ unreadCount' = Emit(unreadCount, k)
        /\ last' = IF last.op = "push"
                   THEN [last EXCEPT !.val = @ + 1]
                   ELSE Last("push", unreadCount, 1, FALSE, TRUE)
        /\ fetches' = LET Seen(f) == IF /\ f.user = e.user
                                           /\ f.state = "ok"
                                           /\ e.n > f.len
                                        THEN [f EXCEPT !.missed = @ + 1]
                                        ELSE f
                       IN  BagOfAll(Seen, fetches)
        /\ basis' = IF basis.valid
                    THEN [basis EXCEPT !.pushes = @ + 1] ELSE basis
        /\ UNCHANGED <<userId, socket, mounted, listeners, unread, profVars>>

\* ------------------------------------------------------ navbar environment
\* The server answers GET /api/notifications?unreadOnly=true with the
\* caller's unread notifications as they are at that moment.
ServerAnswer(f) ==
    /\ BagIn(f, fetches)
    /\ f.state = "sent"
    /\ fetches' = (fetches (-) SetToBag({f})) (+)
                    SetToBag({[f EXCEPT !.state = "ok", !.len = unread[f.user]]})
    /\ UNCHANGED <<userId, socket, mounted, unreadCount, listeners, unread,
                   wire, last, basis, profVars>>

Created == unread["u1"] + unread["u2"] - (InitUnread["u1"] + InitUnread["u2"])

\* The server records a notification for user u and, when u is the user
\* connected on the current socket, emits notification:new on it.
ServerNotify(u) ==
    /\ Created < MaxNotifs
    /\ unread' = [unread EXCEPT ![u] = @ + 1]
    /\ wire' = IF socket # NoSocket /\ userId = u
               THEN wire \cup {[sock |-> socket, user |-> u, n |-> unread[u] + 1]}
               ELSE wire
    /\ UNCHANGED <<userId, socket, mounted, unreadCount, fetches, listeners,
                   last, basis, profVars>>

\* A push event reaches a socket on which this component has no listener.
DropPush(e) ==
    /\ e \in wire
    /\ {l \in listeners : l.sock = e.sock} = {}
    /\ wire' = wire \ {e}
    /\ UNCHANGED <<userId, socket, mounted, unreadCount, fetches, listeners,
                   unread, last, basis, profVars>>

\* ------------------------------------------------------------ profile page
\* Strings are sequences of characters.
Fields == {"displayName", "handle", "bio", "avatarUrl"}
Undefined == <<"undefined">>
Null == <<"null">>
InputStrs == {<<>>, <<" ">>, <<" ", "A">>}

\* String.prototype.trim on a sequence of characters.
RECURSIVE trim(_)
trim(s) ==
    IF s = <<>> THEN s
    ELSE IF Head(s) = " " THEN trim(Tail(s))
    ELSE IF s[Len(s)] = " " THEN trim(SubSeq(s, 1, Len(s) - 1))
    ELSE s

\* String.prototype.toLowerCase on a sequence of characters.
toLowerCase(s) == [i \in 1..Len(s) |-> IF s[i] = "A" THEN "a" ELSE s[i]]

\* z.string().transform(trim).transform("" -> undefined).optional()
optionalText(s) == IF trim(s) = <<>> THEN Undefined ELSE trim(s)

\* zodResolver(ProfileSchema): the values handleSubmit passes to onSubmit.
ProfileSchema(f) == [k \in Fields |-> optionalText(f[k])]

\* onSubmit builds the payload: truthy fields only, the handle lower-cased.
Payload(values) ==
    [k \in {x \in Fields : values[x] # Undefined} |->
        IF k = "handle" THEN toLowerCase(values[k]) ELSE values[k]]

\* form.reset({ field: response.field ?? "" })
ResetTo(rec) == [k \in Fields |-> IF rec[k] = Null THEN <<>> ELSE rec[k]]

\* state: none, sent, ok (answered), then how the handler ended: done, failed.
NoPatch == [state |-> "none", payload |-> <<>>, resp |-> <<>>]

\* The user types into a field; inputs are disabled while loading or saving.
Edit(k, s) ==
    /\ ~isLoading /\ ~isSaving
    /\ form[k] # s
    /\ form' = [form EXCEPT ![k] = s]
    /\ UNCHANGED <<isLoading, isSaving, load, patch, profile, notices, submits,
                   navVars>>

\* onSubmit(values) up to the awaited apiPatch: setIsSaving(true), build the
\* payload, send PATCH /api/me.
onSubmit ==
    /\ ~isLoading /\ ~isSaving
    /\ submits < MaxSubmits
    /\ submits' = submits + 1
    /\ isSaving' = TRUE
    /\ patch' = [state |-> "sent", payload |-> Payload(ProfileSchema(form)),
                 resp |-> <<>>]
    /\ UNCHANGED <<form, isLoading, load, profile, notices, navVars>>

\* The awaited apiPatch resolves: form.reset(response), toast.success,
\* finally setIsSaving(false).
PatchResolve ==
    /\ patch.state = "ok"
    /\ form' = ResetTo(patch.resp)
    /\ notices' = notices + 1
    /\ isSaving' = FALSE
    /\ patch' = [NoPatch EXCEPT !.state = "done"]
    /\ UNCHANGED <<isLoading, load, profile, submits, navVars>>

\* The awaited apiPatch rejects: catch (error) {} finally setIsSaving(false).
PatchFail ==
    /\ patch.state \in {"sent", "ok"}
    /\ isSaving' = FALSE
    /\ patch' = [NoPatch EXCEPT !.state = "failed"]
    /\ UNCHANGED <<form, isLoading, load, profile, notices, submits, navVars>>

\* loadProfile resolves: form.reset(response), finally setIsLoading(false).
LoadResolve ==
    /\ load = "sent"
    /\ load' = "none"
    /\ form' = ResetTo(profile)
    /\ isLoading' = FALSE
    /\ UNCHANGED <<isSaving, patch, profile, notices, submits, navVars>>

\* loadProfile rejects: console.log(err), finally setIsLoading(false).
LoadFail ==
    /\ load = "sent"
    /\ load' = "none"
    /\ isLoading' = FALSE
    /\ UNCHANGED <<form, isSaving, patch, profile, notices, submits, navVars>>

\* The server applies PATCH /api/me and returns the updated record.
ServerPatch ==
    /\ patch.state = "sent"
    /\ LET updated == [k \in Fields |->
                         IF k \in DOMAIN patch.payload
                         THEN patch.payload[k] ELSE profile[k]]
       IN  /\ profile' = updated
           /\ patch' = [patch EXCEPT !.state = "ok", !.resp = updated]
    /\ UNCHANGED <<form, isLoading, isSaving, load, notices, submits, navVars>>

\* ------------------------------------------------------------ specifications
Init ==
    /\ userId = NoUser
    /\ socket = NoSocket
    /\ mounted = TRUE
    /\ unreadCount = 0
    /\ fetches = EmptyBag
    /\ listeners = {}
    /\ unread = InitUnread
    /\ wire = {}
    /\ last = Last("clear", 0, 0, FALSE, FALSE)
    /\ basis = NoBasis
    /\ form = [k \in Fields |-> <<>>]
    /\ isLoading = TRUE
    /\ isSaving = FALSE
    /\ load = "sent"
    /\ patch = NoPatch
    /\ profile = [k \in Fields |-> Null]
    /\ notices = 0
    /\ submits = 0

Next ==
    \/ \E u \in Users \cup {NoUser} : SessionChange(u)
    \/ \E s \in NextSockets : SocketChange(s)
    \/ \E f \in BagToSet(fetches) : SeedResolve(f)
    \/ \E f \in BagToSet(fetches) : SeedFail(f)
    \/ \E e \in wire : handleNewNotification(e)
    \/ \E f \in BagToSet(fetches) : ServerAnswer(f)
    \/ \E u \in Notified : ServerNotify(u)
    \/ \E e \in wire : DropPush(e)

Spec == Init /\ [][Next]_vars

\* The same, with the Navbar unmounting and mounting again.
LifecycleNext ==
    \/ Next
    \/ \E u \in Users \cup {NoUser}, s \in NextSockets \cup {socket} : Mount(u, s)
    \/ Unmount

LifecycleSpec == Init /\ [][LifecycleNext]_vars

ProfileNext ==
    \/ \E k \in Fields, s \in InputStrs : Edit(k, s)
    \/ onSubmit
    \/ PatchResolve
    \/ PatchFail
    \/ LoadResolve
    \/ LoadFail
    \/ ServerPatch

ProfileSpec == Init /\ [][ProfileNext]_vars

\* -------------------------------------------------------------- properties
\* The step is the seed fetch f resolving with the server's collection.
Resolved(f) ==
    /\ f.state = "ok"
    /\ fetches' = fetches (-) SetToBag({f})
    /\ last'.op = "seedOk"

\* The step is a push event leaving the wire.
Delivered == \E e \in wire : wire' = wire \ {e}

\* C1: a seed response for session S1 that resolves after the session has
\* changed and a seed for S2 has been issued is discarded: it leaves
\* unreadCount as it was.
StaleSeedDiscarded ==
    [][\A f \in BagToSet(fetches) :
         (Resolved(f) /\ ~f.latest /\ userId # NoUser /\ f.user # userId)
            => unreadCount' = unreadCount]_vars

\* C2: when the seed of the current session resolves, unreadCount is the
\* seed's snapshot plus one for every push event that arrived while it was
\* in flight and is not part of the snapshot.
PushDuringSeedKept ==
    [][\A f \in BagToSet(fetches) :
         (Resolved(f) /\ f.latest /\ f.user = userId)
            => unreadCount' = f.len + f.missed]_vars

\* C3: once the session is cleared unreadCount is 0, and a seed fetch issued
\* before the sign-out that resolves (or fails) after it leaves it 0.
ClearedCountStaysZero ==
    (userId = NoUser /\ last.op \in {"clear", "seedOk", "seedFail"})
        => unreadCount = 0

\* C4: a push event received while the session is absent does not increment
\* unreadCount.
NoIncrementAfterSignOut ==
    [][(userId = NoUser /\ Delivered) => unreadCount' = unreadCount]_vars

\* C5: whenever a seed has been applied for the current session, unreadCount
\* is the length that seed returned plus the push events received since.
CountIsSeedPlusPushes ==
    basis.valid => unreadCount = basis.len + basis.pushes

\* C6: a seed that succeeds with a collection of length K for the present
\* session, with no newer seed request issued, sets unreadCount to K.
FreshSeedSetsCount ==
    (last.op = "seedOk" /\ last.fresh) => unreadCount = last.val

FreshSeedWitness ==
    /\ last.op = "seedOk"
    /\ last.fresh
    /\ last.overwrote
    /\ last.val > 0
    /\ unreadCount = last.val

\* C7: a failed seed fetch leaves unreadCount as it was, writes to the log
\* and shows no toast.
SeedFailureKeepsCount ==
    last.op = "seedFail" =>
        /\ unreadCount = last.before
        /\ last.log
        /\ ~last.toast

SeedFailureWitness ==
    /\ last.op = "seedFail"
    /\ userId # NoUser
    /\ unreadCount > 0
    /\ unreadCount = last.before

\* C8: after N push events handled in a row, unreadCount is its value before
\* them plus N.
EachPushAddsOne ==
    last.op = "push" => unreadCount = last.before + last.val

EachPushWitness ==
    /\ last.op = "push"
    /\ last.val >= 2
    /\ fetches = EmptyBag
    /\ unreadCount = last.before + last.val

\* C9: at most one notification:new listener of this component is registered
\* at any time, none after teardown, and none once the session has ended.
OneListenerPerSession ==
    /\ Cardinality(listeners) <= 1
    /\ ~mounted => listeners = {}
    /\ \A l \in listeners : ~l.ended

\* C10: when PATCH /api/me fails, the user is shown a notice, the form keeps
\* the values entered and isSaving returns to false.
PatchFailureSurfaced ==
    [][(patch.state # "failed" /\ patch'.state = "failed")
          => /\ notices' = notices + 1
             /\ form' = form
             /\ isSaving' = FALSE]_vars

====
